---- MODULE Spec2Model ----
(***************************************************************************)
(* Model of reddit_mcp/server.py: the tool catalog (list_tools), the       *)
(* dispatcher (call_tool), the start-up initialisation of the process-wide *)
(* collaborator handle (initialize_reddit_client) and the serving loop     *)
(* started by main.                                                        *)
(***************************************************************************)
EXTENDS Integers, Sequences, FiniteSets, TLC

VARIABLES
    pc,             \* position of main: "start", "serving", "responded",
                    \* or "crashed" when a fault leaves main
    env,            \* names of the credentials present in os.environ
    reddit_client,  \* the module-level handle (server.py:23)
    writes,         \* number of assignments made to reddit_client
    request,        \* the request being handled (request-scoped)
    response,       \* what the handler returned (request-scoped)
    invoked,        \* collaborator invocations made by the current call
    log             \* lines logged by the current operation

vars == <<pc, env, reddit_client, writes, request, response, invoked, log>>

----------------------------------------------------------------------------
(* Python values.  Each type has its own record shape, so values of         *)
(* different types are comparable and never equal.                          *)

PyNone == [ty |-> "NoneType"]
PyStr(s) == [ty |-> "str", s |-> s]
PyInt(i) == [ty |-> "int", i |-> i]
\* a dict used as a mapping (only looked up by key)
PyDict(d) == [ty |-> "dict", d |-> d]
\* a list of values
PyList(xs) == [ty |-> "list", xs |-> xs]
\* a dict in insertion order: a sequence of <<key, value>> pairs
PyRecord(items) == [ty |-> "record", items |-> items]
\* an instance of RedditClient
PyClient == [ty |-> "RedditClient"]

\* str(v) / f-string interpolation of a value
Str(v) ==
    CASE v.ty = "NoneType" -> "None"
      [] v.ty = "str" -> v.s
      [] v.ty = "int" -> ToString(v.i)
      [] OTHER -> "<" \o v.ty \o ">"

\* an exception instance; str(e) is its message
Exc(type, message) == [type |-> type, message |-> message]

\* the classes `except Exception` catches among those the model raises
ExceptionSubclasses ==
    {"Exception", "AttributeError", "TypeError", "ValueError", "KeyError"}

----------------------------------------------------------------------------
(* Bounds and input sets                                                    *)

\* the largest limit a caller supplies
MaxLimit == 11

DefaultLimit == 10
DefaultSort == "relevance"
DefaultTimeFilter == "all"

\* messages of the faults the collaborator raises
FaultMessages == {"received 404 HTTP response", "rate limit exceeded"}

\* tool names a caller sends: the four catalog names and names that are not
\* in the catalog (one differs from a catalog name by case only)
KnownTools ==
    {"search_reddit_posts", "get_reddit_post_details",
     "get_subreddit_info", "get_hot_reddit_posts"}
UnknownTools == {"Search_Reddit_Posts", "delete_post"}
ToolNames == KnownTools \cup UnknownTools

\* the values a caller supplies for each argument key
ArgValues ==
    [subreddit |-> {PyStr("python")},
     query |-> {PyStr("foo")},
     post_id |-> {PyStr("abc123")},
     limit |-> {PyInt(i) : i \in (DefaultLimit - 1)..MaxLimit},
     sort |-> {PyStr("new")},
     time_filter |-> {PyStr("week")}]
ArgKeys == DOMAIN ArgValues

\* marks a key the caller leaves out
Absent == [ty |-> "absent"]

\* every mapping from some of the keys to supplied values
ArgMappings ==
    {[k \in {j \in ArgKeys : r[j] # Absent} |-> r[k]] :
        r \in [subreddit : ArgValues.subreddit \cup {Absent},
               query : ArgValues.query \cup {Absent},
               post_id : ArgValues.post_id \cup {Absent},
               limit : ArgValues.limit \cup {Absent},
               sort : ArgValues.sort \cup {Absent},
               time_filter : ArgValues.time_filter \cup {Absent}]}

\* arguments: dict[str, Any] | None
Arguments == {PyNone} \cup {PyDict(d) : d \in ArgMappings}

\* what a collaborator method gives back
Post1 ==
    PyRecord(<< <<"id", PyStr("abc123")>>, <<"score", PyInt(42)>>,
                <<"author", PyNone>> >>)
ReturnValues == {PyList(<<>>), PyList(<<Post1>>), Post1, PyNone}
Faults == {Exc("Exception", m) : m \in FaultMessages}
Outcomes ==
    {[kind |-> "return", value |-> v] : v \in ReturnValues}
    \cup {[kind |-> "raise", exc |-> e] : e \in Faults}

\* how RedditClient(config) ends: with a client, or with a fault
Constructions ==
    {[kind |-> "return", value |-> PyClient],
     [kind |-> "raise", exc |-> Exc("Exception", "invalid credentials")]}

\* the three credentials RedditConfig.from_env reads
Credentials == {"REDDIT_CLIENT_ID", "REDDIT_CLIENT_SECRET", "REDDIT_USER_AGENT"}

----------------------------------------------------------------------------
(* json.dumps(value, indent=2, default=str)                                 *)

RECURSIVE Spaces(_)
Spaces(n) == IF n = 0 THEN "" ELSE " " \o Spaces(n - 1)

RECURSIVE json_dumps(_, _)
RECURSIVE json_items(_, _, _)
\* the members of a list or dict from index i on, one per line
json_items(v, i, level) ==
    LET n == IF v.ty = "list" THEN Len(v.xs) ELSE Len(v.items)
        member ==
            IF v.ty = "list" THEN json_dumps(v.xs[i], level)
            ELSE "\"" \o v.items[i][1] \o "\": "
                 \o json_dumps(v.items[i][2], level)
    IN  IF i > n THEN ""
        ELSE Spaces(2 * level) \o member
             \o (IF i < n THEN ",\n" ELSE "\n")
             \o json_items(v, i + 1, level)
json_dumps(v, level) ==
    CASE v.ty = "NoneType" -> "null"
      [] v.ty = "int" -> ToString(v.i)
      [] v.ty = "str" -> "\"" \o v.s \o "\""
      [] v.ty = "list" ->
            IF Len(v.xs) = 0 THEN "[]"
            ELSE "[\n" \o json_items(v, 1, level + 1)
                 \o Spaces(2 * level) \o "]"
      [] v.ty = "record" ->
            IF Len(v.items) = 0 THEN "{}"
            ELSE "{\n" \o json_items(v, 1, level + 1)
                 \o Spaces(2 * level) \o "}"
      [] OTHER -> "\"" \o Str(v) \o "\""

\* len(v) is defined for sized values only
HasLen(v) == v.ty \in {"list", "record", "str"}
len(v) ==
    CASE v.ty = "list" -> Len(v.xs)
      [] v.ty = "record" -> Len(v.items)
      [] v.ty = "str" -> Len(v.s)

----------------------------------------------------------------------------
(* The catalog                                                              *)

Tool(name, description, inputSchema) ==
    [name |-> name, description |-> description, inputSchema |-> inputSchema]

\* the four descriptors, in the order list_tools builds them
Tool_search_reddit_posts ==
    Tool("search_reddit_posts",
         "Search for posts in a specific subreddit",
         [type |-> "object",
          properties |->
             [subreddit |->
                 [type |-> "string",
                  description |->
                     "The name of the subreddit to search in (without r/)"],
              query |->
                 [type |-> "string",
                  description |-> "The search query"],
              limit |->
                 [type |-> "integer",
                  description |->
                     "Number of posts to return (default: 10, max: 100)",
                  default |-> 10, minimum |-> 1, maximum |-> 100],
              sort |->
                 [type |-> "string",
                  description |-> "Sort method for search results",
                  enum |-> <<"relevance", "hot", "top", "new", "comments">>,
                  default |-> "relevance"],
              time_filter |->
                 [type |-> "string",
                  description |-> "Time filter for search results",
                  enum |-> <<"all", "day", "week", "month", "year">>,
                  default |-> "all"]],
          required |-> <<"subreddit", "query">>])

Tool_get_reddit_post_details ==
    Tool("get_reddit_post_details",
         "Get detailed information about a specific Reddit post",
         [type |-> "object",
          properties |->
             [post_id |->
                 [type |-> "string",
                  description |-> "The Reddit post ID"]],
          required |-> <<"post_id">>])

Tool_get_subreddit_info ==
    Tool("get_subreddit_info",
         "Get information about a subreddit",
         [type |-> "object",
          properties |->
             [subreddit |->
                 [type |-> "string",
                  description |->
                     "The name of the subreddit (without r/)"]],
          required |-> <<"subreddit">>])

Tool_get_hot_reddit_posts ==
    Tool("get_hot_reddit_posts",
         "Get hot posts from a subreddit",
         [type |-> "object",
          properties |->
             [subreddit |->
                 [type |-> "string",
                  description |->
                     "The name of the subreddit (without r/)"],
              limit |->
                 [type |-> "integer",
                  description |->
                     "Number of posts to return (default: 10, max: 100)",
                  default |-> 10, minimum |-> 1, maximum |-> 100]],
          required |-> <<"subreddit">>])

\* a catalog that has lost its third descriptor
list_tools_dropped ==
    <<Tool_search_reddit_posts, Tool_get_reddit_post_details,
      Tool_get_hot_reddit_posts>>

\* the list returned by list_tools
list_tools ==
    <<Tool_search_reddit_posts, Tool_get_reddit_post_details,
      Tool_get_subreddit_info, Tool_get_hot_reddit_posts>>

ListToolsResult(tools) == [kind |-> "ListToolsResult", tools |-> tools]

----------------------------------------------------------------------------
(* The dispatcher                                                           *)

TextContent(text) == [type |-> "text", text |-> text]
CallToolResult(text) ==
    [kind |-> "CallToolResult", content |-> <<TextContent(text)>>]

NotInitializedText ==
    "Error: Reddit client not initialized. Please check your configuration "
    \o "and ensure REDDIT_CLIENT_ID, REDDIT_CLIENT_SECRET, and "
    \o "REDDIT_USER_AGENT are set."

\* how a statement sequence inside the try block ends: by a return with a
\* text, or by a raised exception; calls holds the collaborator invocations
\* made up to that point
Return(text, calls) == [kind |-> "return", text |-> text, calls |-> calls]
Raise(exc, calls) == [kind |-> "raise", exc |-> exc, calls |-> calls]

\* arguments.get on a value that is not a dict
NoGetAttribute(arguments) ==
    Exc("AttributeError",
        "'" \o arguments.ty \o "' object has no attribute 'get'")
\* len(v) on a value without a length
NoLen(v) == Exc("TypeError", "object of type '" \o v.ty \o "' has no len()")

\* a lookup that loses the supplied value
dict_get_default_only(arguments, key, default) == default

\* arguments.get(key, default) on a dict
dict_get(arguments, key, default) ==
    IF key \in DOMAIN arguments.d THEN arguments.d[key] ELSE default

\* a collaborator invocation: method, positional and keyword arguments, and
\* how the collaborator answered it
Call(method, args, kwargs, outcome) ==
    [method |-> method, args |-> args, kwargs |-> kwargs, outcome |-> outcome]

\* the branch for name == "search_reddit_posts"
search_reddit_posts(arguments, outcome) ==
    IF arguments.ty # "dict" THEN Raise(NoGetAttribute(arguments), <<>>)
    ELSE
        LET subreddit == dict_get(arguments, "subreddit", PyNone)
            query == dict_get(arguments, "query", PyNone)
            limit == dict_get(arguments, "limit", PyInt(DefaultLimit))
            sort == dict_get(arguments, "sort", PyStr(DefaultSort))
            time_filter ==
                dict_get(arguments, "time_filter", PyStr(DefaultTimeFilter))
            call ==
                Call("search_posts", <<>>,
                     [subreddit_name |-> subreddit, query |-> query,
                      limit |-> limit, sort |-> sort,
                      time_filter |-> time_filter],
                     outcome)
            posts == outcome.value
        IN  IF outcome.kind = "raise" THEN Raise(outcome.exc, <<call>>)
            ELSE IF ~HasLen(posts) THEN Raise(NoLen(posts), <<call>>)
            ELSE Return("Found " \o ToString(len(posts)) \o " posts in r/"
                        \o Str(subreddit) \o " for query: '" \o Str(query)
                        \o "'\n\n" \o json_dumps(posts, 0),
                        <<call>>)

\* the branch for name == "get_reddit_post_details"
get_reddit_post_details(arguments, outcome) ==
    IF arguments.ty # "dict" THEN Raise(NoGetAttribute(arguments), <<>>)
    ELSE
        LET post_id == dict_get(arguments, "post_id", PyNone)
            call == Call("get_post_details", <<post_id>>, <<>>, outcome)
            post_details == outcome.value
        IN  IF outcome.kind = "raise" THEN Raise(outcome.exc, <<call>>)
            ELSE Return("Post details for " \o Str(post_id) \o ":\n\n"
                        \o json_dumps(post_details, 0),
                        <<call>>)

\* a branch that indexes arguments["subreddit"] instead of using get
get_subreddit_info_strict(arguments, outcome) ==
    IF arguments.ty # "dict" THEN Raise(NoGetAttribute(arguments), <<>>)
    ELSE IF "subreddit" \notin DOMAIN arguments.d
    THEN Raise(Exc("KeyError", "'subreddit'"), <<>>)
    ELSE
        LET subreddit == arguments.d["subreddit"]
            call == Call("get_subreddit_info", <<subreddit>>, <<>>, outcome)
        IN  IF outcome.kind = "raise" THEN Raise(outcome.exc, <<call>>)
            ELSE Return("Subreddit information for r/" \o Str(subreddit)
                        \o ":\n\n" \o json_dumps(outcome.value, 0),
                        <<call>>)

\* the branch for name == "get_subreddit_info"
get_subreddit_info(arguments, outcome) ==
    IF arguments.ty # "dict" THEN Raise(NoGetAttribute(arguments), <<>>)
    ELSE
        LET subreddit == dict_get(arguments, "subreddit", PyNone)
            call == Call("get_subreddit_info", <<subreddit>>, <<>>, outcome)
            subreddit_info == outcome.value
        IN  IF outcome.kind = "raise" THEN Raise(outcome.exc, <<call>>)
            ELSE Return("Subreddit information for r/" \o Str(subreddit)
                        \o ":\n\n" \o json_dumps(subreddit_info, 0),
                        <<call>>)

\* the branch for name == "get_hot_reddit_posts"
get_hot_reddit_posts(arguments, outcome) ==
    IF arguments.ty # "dict" THEN Raise(NoGetAttribute(arguments), <<>>)
    ELSE
        LET subreddit == dict_get(arguments, "subreddit", PyNone)
            limit == dict_get(arguments, "limit", PyInt(DefaultLimit))
            call == Call("get_hot_posts", <<subreddit, limit>>, <<>>, outcome)
            posts == outcome.value
        IN  IF outcome.kind = "raise" THEN Raise(outcome.exc, <<call>>)
            ELSE Return("Hot posts from r/" \o Str(subreddit) \o ":\n\n"
                        \o json_dumps(posts, 0),
                        <<call>>)

\* an else branch that raises instead of returning
unknown_tool_raises(name) ==
    Raise(Exc("ValueError", "Unknown tool: " \o name), <<>>)

\* the else branch: no collaborator method is touched
unknown_tool(name) == Return("Unknown tool: " \o name, <<>>)

\* the if/elif chain inside the try block
try_block(name, arguments, outcome) ==
    IF name = "search_reddit_posts"
        THEN search_reddit_posts(arguments, outcome)
    ELSE IF name = "get_reddit_post_details"
        THEN get_reddit_post_details(arguments, outcome)
    ELSE IF name = "get_subreddit_info"
        THEN get_subreddit_info(arguments, outcome)
    ELSE IF name = "get_hot_reddit_posts"
        THEN get_hot_reddit_posts(arguments, outcome)
    ELSE unknown_tool(name)

\* what a call of call_tool amounts to: its result (or the exception that
\* leaves it), the collaborator invocations, the log lines
Done(result, calls, lines) ==
    [response |-> result, invoked |-> calls, log |-> lines]
Propagate(exc) == [kind |-> "raise", exc |-> exc]
LogLine(level, msg) == [level |-> level, msg |-> msg]

\* a handler that catches the collaborator's own exception class only
except_Exception_narrow(name, r) ==
    IF r.exc.type = "Exception"
    THEN Done(CallToolResult("Error: " \o r.exc.message), r.calls,
              <<LogLine("ERROR", "Error calling tool " \o name \o ": "
                                 \o r.exc.message)>>)
    ELSE Done(Propagate(r.exc), r.calls, <<>>)

\* except Exception as e
except_Exception(name, r) ==
    IF r.exc.type \in ExceptionSubclasses
    THEN Done(CallToolResult("Error: " \o r.exc.message), r.calls,
              <<LogLine("ERROR", "Error calling tool " \o name \o ": "
                                 \o r.exc.message)>>)
    ELSE Done(Propagate(r.exc), r.calls, <<>>)

\* a guard that never fires
client_is_None_skipped(client) == FALSE

\* the guard on the handle, ahead of the try block
client_is_None(client) == client = PyNone

\* a dispatcher that tries the collaborator a second time after a fault
call_tool_retries(name, arguments, client, outcome) ==
    IF client = PyNone
    THEN Done(CallToolResult(NotInitializedText), <<>>, <<>>)
    ELSE LET r == try_block(name, arguments, outcome)
         IN  IF r.kind = "return"
             THEN Done(CallToolResult(r.text), r.calls, <<>>)
             ELSE Done(CallToolResult("Error: " \o r.exc.message),
                       r.calls \o r.calls, <<>>)

call_tool(name, arguments, client, outcome) ==
    IF client_is_None(client)
    THEN Done(CallToolResult(NotInitializedText), <<>>, <<>>)
    ELSE LET r == try_block(name, arguments, outcome)
         IN  IF r.kind = "return"
             THEN Done(CallToolResult(r.text), r.calls, <<>>)
             ELSE except_Exception(name, r)

----------------------------------------------------------------------------
(* Start-up                                                                 *)

\* RedditConfig.from_env(): a configuration when the three credentials are
\* in the environment, a ValueError otherwise
from_env(environ) ==
    IF Credentials \subseteq environ
    THEN [kind |-> "return", value |-> [ty |-> "RedditConfig"]]
    ELSE [kind |-> "raise",
          exc |-> Exc("ValueError", "Missing required Reddit API configuration")]

\* an initialisation without the except clause
initialize_reddit_client_reraises(client, environ, construction) ==
    LET config == from_env(environ)
        r == IF config.kind = "raise" THEN config ELSE construction
    IN  IF r.kind = "return"
        THEN [reddit_client |-> r.value, writes |-> 1, raised |-> FALSE,
              log |-> <<LogLine("INFO",
                    "Reddit client initialized successfully in read-only mode")>>]
        ELSE [reddit_client |-> client, writes |-> 0, raised |-> TRUE,
              log |-> <<>>]

\* initialize_reddit_client(): the value the handle ends with, the number of
\* assignments made to it, the lines logged, and whether a fault leaves the
\* function; client is the handle's value on entry
initialize_reddit_client(client, environ, construction) ==
    LET config == from_env(environ)
        r == IF config.kind = "raise" THEN config ELSE construction
    IN  IF r.kind = "return"
        THEN [reddit_client |-> r.value, writes |-> 1, raised |-> FALSE,
              log |-> <<LogLine("INFO",
                    "Reddit client initialized successfully in read-only mode")>>]
        ELSE IF r.exc.type \in ExceptionSubclasses
        THEN [reddit_client |-> PyNone, writes |-> 1, raised |-> FALSE,
              log |-> <<LogLine("ERROR",
                    "Failed to initialize Reddit client: " \o r.exc.message)>>]
        ELSE [reddit_client |-> client, writes |-> 0, raised |-> TRUE,
              log |-> <<>>]

----------------------------------------------------------------------------
(* The state machine                                                        *)

NoRequest == [op |-> "none"]
NoResponse == [kind |-> "none"]

Init ==
    /\ pc = "start"
    /\ env \in SUBSET Credentials
    /\ reddit_client = PyNone
    /\ writes = 0
    /\ request = NoRequest
    /\ response = NoResponse
    /\ invoked = <<>>
    /\ log = <<>>

\* main: initialize_reddit_client() runs before the serving loop is entered
InitializeRedditClient(construction) ==
    /\ pc = "start"
    /\ LET r == initialize_reddit_client(reddit_client, env, construction)
       IN  /\ reddit_client' = r.reddit_client
           /\ writes' = writes + r.writes
           /\ log' = r.log
           /\ pc' = IF r.raised THEN "crashed" ELSE "serving"
    /\ UNCHANGED <<env, request, response, invoked>>

\* a handler that drops the handle after a fault
CallTool_resets_client(name, arguments, outcome) ==
    /\ pc = "serving"
    /\ LET r == call_tool(name, arguments, reddit_client, outcome)
       IN  /\ response' = r.response
           /\ invoked' = r.invoked
           /\ log' = r.log
           /\ reddit_client' = IF r.log # <<>> THEN PyNone ELSE reddit_client
           /\ writes' = IF r.log # <<>> THEN writes + 1 ELSE writes
    /\ request' = [op |-> "call_tool", name |-> name, arguments |-> arguments]
    /\ pc' = "responded"
    /\ UNCHANGED env

\* the serving loop hands a tools/call request to call_tool
CallTool(name, arguments, outcome) ==
    /\ pc = "serving"
    /\ LET r == call_tool(name, arguments, reddit_client, outcome)
       IN  /\ response' = r.response
           /\ invoked' = r.invoked
           /\ log' = r.log
    /\ request' = [op |-> "call_tool", name |-> name, arguments |-> arguments]
    /\ pc' = "responded"
    /\ UNCHANGED <<env, reddit_client, writes>>

\* the serving loop hands a tools/list request to list_tools
ListTools ==
    /\ pc = "serving"
    /\ response' = ListToolsResult(list_tools)
    /\ request' = [op |-> "list_tools"]
    /\ invoked' = <<>>
    /\ log' = <<>>
    /\ pc' = "responded"
    /\ UNCHANGED <<env, reddit_client, writes>>

\* the serving loop sends the response; what belonged to the request is gone
SendResponse ==
    /\ pc = "responded"
    /\ request' = NoRequest
    /\ response' = NoResponse
    /\ invoked' = <<>>
    /\ log' = <<>>
    /\ pc' = "serving"
    /\ UNCHANGED <<env, reddit_client, writes>>

Next ==
    \/ \E construction \in Constructions : InitializeRedditClient(construction)
    \/ \E name \in ToolNames, arguments \in Arguments, outcome \in Outcomes :
            CallTool(name, arguments, outcome)
    \/ ListTools
    \/ SendResponse

Spec == Init /\ [][Next]_vars

----------------------------------------------------------------------------
(* Properties                                                               *)

\* a call_tool invocation has just returned
IsCall == request.op = "call_tool"
HandleSet == reddit_client # PyNone
AllCredentials == Credentials \subseteq env

\* the result is a CallToolResult with the one text block t
SingleTextBlock(t) ==
    /\ response.kind = "CallToolResult"
    /\ Len(response.content) = 1
    /\ response.content[1] = [type |-> "text", text |-> t]

\* the `required` array the catalog declares for a tool, as a set
Required(name) ==
    LET i == CHOOSE j \in 1..Len(list_tools) : list_tools[j].name = name
        required == list_tools[i].inputSchema.required
    IN  {required[k] : k \in 1..Len(required)}

\* the required parameters the arguments of a call do not carry
Missing(name, arguments) ==
    {p \in Required(name) : arguments.ty # "dict" \/ p \notin DOMAIN arguments.d}

\* the collaborator method each catalog tool stands for
MethodOf ==
    [search_reddit_posts |-> "search_posts",
     get_reddit_post_details |-> "get_post_details",
     get_subreddit_info |-> "get_subreddit_info",
     get_hot_reddit_posts |-> "get_hot_posts"]

\* the value a collaborator invocation received for a tool parameter
Forwarded(call, param) ==
    CASE call.method = "search_posts" ->
            IF param = "subreddit" THEN call.kwargs.subreddit_name
            ELSE call.kwargs[param]
      [] call.method = "get_hot_posts" ->
            IF param = "subreddit" THEN call.args[1] ELSE call.args[2]
      [] OTHER -> call.args[1]

\* the value a call's arguments carry for a key, or a default
Supplied(arguments, key, default) ==
    IF key \in DOMAIN arguments.d THEN arguments.d[key] ELSE default

\* C1: with the handle unset, every call_tool invocation (any name, any
\* arguments, absent ones included) returns the fixed not-initialized text
\* and invokes no collaborator method.
C1_NotInitialized ==
    (IsCall /\ reddit_client = PyNone) =>
        /\ SingleTextBlock(NotInitializedText)
        /\ invoked = <<>>

C1_Witness ==
    /\ IsCall
    /\ reddit_client = PyNone
    /\ request.name = "get_hot_reddit_posts"
    /\ request.arguments = PyDict([subreddit |-> PyStr("python")])
    /\ SingleTextBlock(NotInitializedText)

\* C2: when the collaborator method raises a fault with message m, the call
\* returns one text block "Error: " followed by m, the fault does not leave
\* call_tool, and the collaborator was invoked once only.
C2_FaultBecomesErrorText ==
    \A i \in DOMAIN invoked :
        invoked[i].outcome.kind = "raise" =>
            /\ Len(invoked) = 1
            /\ SingleTextBlock("Error: " \o invoked[i].outcome.exc.message)

C2_Witness ==
    /\ IsCall
    /\ request.name = "get_reddit_post_details"
    /\ request.arguments = PyDict([post_id |-> PyStr("abc123")])
    /\ Len(invoked) = 1
    /\ invoked[1].method = "get_post_details"
    /\ invoked[1].outcome.kind = "raise"
    /\ SingleTextBlock("Error: received 404 HTTP response")

\* C3 as stated: a name outside the catalog yields "Unknown tool: {name}"
\* in every reachable state of the server.
C3_UnknownToolAlways ==
    (IsCall /\ request.name \notin KnownTools) =>
        SingleTextBlock("Unknown tool: " \o request.name)

\* C3: with the handle set, a name that is not exactly one of the four
\* catalog names yields the one text block "Unknown tool: {name}", whatever
\* the arguments, and no collaborator method is invoked.
C3_UnknownToolWhenInitialized ==
    (IsCall /\ HandleSet /\ request.name \notin KnownTools) =>
        /\ SingleTextBlock("Unknown tool: " \o request.name)
        /\ invoked = <<>>

C3_Witness ==
    /\ IsCall
    /\ HandleSet
    /\ request.name = "Search_Reddit_Posts"
    /\ request.arguments = PyNone
    /\ SingleTextBlock("Unknown tool: Search_Reddit_Posts")

\* C4: every call_tool invocation ends by returning a result whose content
\* is exactly one text block; no exception leaves call_tool.
C4_AlwaysOneTextBlock ==
    IsCall =>
        /\ response.kind = "CallToolResult"
        /\ Len(response.content) = 1
        /\ response.content[1].type = "text"

C4_Witness ==
    /\ IsCall
    /\ HandleSet
    /\ request.name = "search_reddit_posts"
    /\ request.arguments = PyNone
    /\ SingleTextBlock("Error: 'NoneType' object has no attribute 'get'")

\* C5: when a credential is absent at start-up, initialize_reddit_client
\* does not raise and leaves the handle unset, and every call served
\* afterwards gets the not-initialized response; the handle is set only
\* when all three credentials are present and a client was constructed.
C5_MissingCredential ==
    /\ (pc # "start" /\ ~AllCredentials) =>
            (pc # "crashed" /\ reddit_client = PyNone)
    /\ (IsCall /\ ~AllCredentials) =>
            (SingleTextBlock(NotInitializedText) /\ invoked = <<>>)
    /\ HandleSet => (AllCredentials /\ reddit_client = PyClient)

C5_Witness ==
    /\ IsCall
    /\ env = {"REDDIT_CLIENT_ID", "REDDIT_USER_AGENT"}
    /\ reddit_client = PyNone
    /\ request.name = "get_subreddit_info"
    /\ SingleTextBlock(NotInitializedText)

\* C6: an optional argument takes its declared default (limit 10, sort
\* "relevance", time_filter "all") only when absent from the mapping, and a
\* supplied limit, sort or time_filter reaches the collaborator unchanged.
C6_DefaultsAndPassThrough ==
    (IsCall /\ HandleSet /\ request.arguments.ty = "dict") =>
        LET a == request.arguments IN
        /\ request.name = "get_hot_reddit_posts" =>
            /\ Len(invoked) = 1
            /\ invoked[1].method = "get_hot_posts"
            /\ invoked[1].args[2] = Supplied(a, "limit", PyInt(10))
        /\ request.name = "search_reddit_posts" =>
            /\ Len(invoked) = 1
            /\ invoked[1].method = "search_posts"
            /\ invoked[1].kwargs.limit = Supplied(a, "limit", PyInt(10))
            /\ invoked[1].kwargs.sort = Supplied(a, "sort", PyStr("relevance"))
            /\ invoked[1].kwargs.time_filter
                    = Supplied(a, "time_filter", PyStr("all"))

C6_Witness ==
    /\ IsCall
    /\ request.name = "search_reddit_posts"
    /\ request.arguments =
            PyDict([subreddit |-> PyStr("python"), query |-> PyStr("foo"),
                    sort |-> PyStr("new"), time_filter |-> PyStr("week")])
    /\ Len(invoked) = 1
    /\ invoked[1].kwargs.limit = PyInt(10)
    /\ invoked[1].kwargs.sort = PyStr("new")
    /\ invoked[1].kwargs.time_filter = PyStr("week")

\* C7 as stated: a call to a known tool whose arguments lack a required
\* parameter is rejected, and is not carried out against the collaborator.
C7_MissingRequiredRejected ==
    (IsCall /\ request.name \in KnownTools
        /\ Missing(request.name, request.arguments) # {}) =>
        invoked = <<>>

\* C7: with the handle set, a call to a known tool whose argument mapping
\* lacks a required parameter is not rejected: the tool's collaborator
\* method is invoked once, with None for each missing required parameter.
C7_MissingRequiredForwarded ==
    (IsCall /\ HandleSet /\ request.name \in KnownTools
        /\ request.arguments.ty = "dict"
        /\ Missing(request.name, request.arguments) # {}) =>
        /\ Len(invoked) = 1
        /\ \A p \in Missing(request.name, request.arguments) :
                Forwarded(invoked[1], p) = PyNone

C7_Witness ==
    /\ IsCall
    /\ HandleSet
    /\ request.name = "get_subreddit_info"
    /\ request.arguments = PyDict(<<>>)
    /\ Len(invoked) = 1
    /\ invoked[1].method = "get_subreddit_info"
    /\ invoked[1].args = <<PyNone>>

\* C8: list_tools returns the same ordered list of four descriptors on every
\* call, whatever the handle and the earlier calls: search_reddit_posts,
\* get_reddit_post_details, get_subreddit_info, get_hot_reddit_posts, with
\* required arrays [subreddit, query], [post_id], [subreddit], [subreddit].
C8_CatalogFixed ==
    request.op = "list_tools" =>
        /\ response.kind = "ListToolsResult"
        /\ Len(response.tools) = 4
        /\ [i \in 1..4 |-> response.tools[i].name]
                = <<"search_reddit_posts", "get_reddit_post_details",
                    "get_subreddit_info", "get_hot_reddit_posts">>
        /\ [i \in 1..4 |-> response.tools[i].inputSchema.required]
                = << <<"subreddit", "query">>, <<"post_id">>,
                     <<"subreddit">>, <<"subreddit">> >>

C8_Witness ==
    /\ request.op = "list_tools"
    /\ reddit_client = PyNone
    /\ Len(response.tools) = 4
    /\ response.tools[4].name = "get_hot_reddit_posts"

\* C9 as stated: with the handle set, a call naming a catalog tool, with a
\* mapping, an empty mapping or absent arguments, invokes the corresponding
\* collaborator method exactly once, with None for each missing required
\* argument.
C9_KnownToolInvokesOnce ==
    (IsCall /\ HandleSet /\ request.name \in KnownTools) =>
        /\ Len(invoked) = 1
        /\ invoked[1].method = MethodOf[request.name]
        /\ \A p \in Missing(request.name, request.arguments) :
                Forwarded(invoked[1], p) = PyNone

\* C10: the handle is assigned once, by initialize_reddit_client before any
\* request is served, and no call_tool or list_tools invocation changes it.
C10_HandleWrittenOnce ==
    [][/\ pc = "start" => (writes' = 1 /\ request' = NoRequest)
       /\ pc # "start" => (reddit_client' = reddit_client /\ writes' = writes)
      ]_vars

C10_Witness ==
    /\ IsCall
    /\ reddit_client = PyClient
    /\ writes = 1
    /\ Len(invoked) = 1
    /\ invoked[1].outcome.kind = "raise"
    /\ log # <<>>

====
